---- MODULE Spec2Model ----
(***************************************************************************)
(* Model of package flex (src/flex/flex.go) of hchargois/flexwriter: the   *)
(* integer flexbox length resolver ResolveFlexLengths and Item.Validate.   *)
(*                                                                         *)
(* The caller's []Item slice is the state: ResolveFlexLengths works on     *)
(* pointers into it, so the public fields normalised by Validate and the   *)
(* private working fields (flexBaseSize, hypoMainSize, frozen,             *)
(* targetMainSize) stay on the caller's records after the call returns.    *)
(*                                                                         *)
(* The Writer of package flexwriter (src/unnamed/part_003) is the second   *)
(* state machine: its struct is the variable writer, what its Flush calls  *)
(* hand to the output is recorded in the variable out.                     *)
(***************************************************************************)
EXTENDS Integers, Sequences, FiniteSets, TLC

(* ------------------------------ bounds --------------------------------- *)

MaxItems == 2
MaxContainer == 6
MaxBasis == 6
MaxSize == 3
MaxMin == 2
MaxMax == 2
MaxWeight == 2

\* Method calls on one Writer, and rows it buffers before a Flush.
MaxCalls == 5
MaxRows == 2

\* Goroutines calling the methods of one Writer.
MaxGoroutines == 2

\* Width in bits of the machine integer (Go's int) in the fixed-width model.
IntBits == 6

\* The container size every table test but one passes (flex_test.go).
TestContainerSize == 60

(* ---------------------------- state ------------------------------------ *)

VARIABLES
    items,              \* the caller's []Item, mutated in place through mutItems
    input,              \* history: the slice as the caller handed it to the current call
    fresh,              \* history: the current call got items whose private fields were zero
    containerSize,      \* parameter containerSize after the clamp of lines 103-105
    pc,                 \* "idle" | "loop" | "done" | "panic"
    useGrow,            \* local useGrow (line 129)
    initialFreeSpace,   \* local initialFreeSpace (lines 137-144)
    iterations,         \* local iterations (line 146)
    remainingFreeSpace, \* local remainingFreeSpace as recomputed at lines 160-167
    violations,         \* local violations of the last iteration (line 212)
    clamped,            \* history: some iteration of this call recorded a violation
    lens,               \* the returned slice
    writer,             \* the fields of a flexwriter.Writer
    out,                \* the Writer's output: what the last Flush laid out, and
                        \* history of the rows written and not yet flushed
    goroutines          \* the method call each goroutine is in, and where in it

vars == <<items, input, fresh, containerSize, pc, useGrow, initialFreeSpace,
          iterations, remainingFreeSpace, violations, clamped, lens, writer, out,
          goroutines>>

(* ------------------------- integer helpers ----------------------------- *)

Abs(x) == IF x < 0 THEN -x ELSE x

\* Variant: the quotient rounded away from zero.
QuoIntAwayFromZero(a, b) ==
    LET q == Abs(a) \div Abs(b)
        r == IF Abs(a) % Abs(b) = 0 THEN q ELSE q + 1
    IN  IF (a < 0) = (b < 0) THEN r ELSE -r

\* Go's integer division: the quotient is truncated toward zero.
QuoInt(a, b) ==
    IF (a < 0) = (b < 0) THEN Abs(a) \div Abs(b) ELSE -(Abs(a) \div Abs(b))

RECURSIVE SumSeq(_)
SumSeq(s) == IF s = <<>> THEN 0 ELSE Head(s) + SumSeq(Tail(s))

\* A Go slice s[:] as a sequence: the same elements, each evaluated once.
Slice(s) == SubSeq(s, 1, Len(s))

(* ------------------------------ Item ----------------------------------- *)

\* A composite literal flex.Item{...}: the unexported fields have their zero
\* values, code outside the package cannot set them.
NewItem(b, g, s, sz, mn, mx) ==
    [Basis |-> b, Grow |-> g, Shrink |-> s, Size |-> sz, Min |-> mn, Max |-> mx,
     flexBaseSize |-> 0, hypoMainSize |-> 0, frozen |-> FALSE, targetMainSize |-> 0]

\* Item.Validate, one operator per if statement, applied in program order.
\* Variant: lines 37-39 (Min raised to 1) are missing.
validateMinAsGiven(it) == it

validateMin(it) == IF it.Min < 1 THEN [it EXCEPT !.Min = 1] ELSE it
validateGrow(it) == IF it.Grow < 0 THEN [it EXCEPT !.Grow = 0] ELSE it
validateShrink(it) == IF it.Shrink < 0 THEN [it EXCEPT !.Shrink = 0] ELSE it
validateSize(it) == IF it.Size < 1 THEN [it EXCEPT !.Size = 1] ELSE it
validateMax(it) == IF it.Max < 0 THEN [it EXCEPT !.Max = 0] ELSE it
validateSizeMin(it) == IF it.Size < it.Min THEN [it EXCEPT !.Size = it.Min] ELSE it
validateMaxMin(it) ==
    IF it.Max # 0 /\ it.Max < it.Min THEN [it EXCEPT !.Max = it.Min] ELSE it
validateSizeMax(it) ==
    IF it.Max # 0 /\ it.Size > it.Max THEN [it EXCEPT !.Size = it.Max] ELSE it

\* Variant: lines 55-57 (Max raised to Min) are missing.
ValidateNoMaxMin(it) ==
    validateSizeMax(validateSizeMin(validateMax(
        validateSize(validateShrink(validateGrow(validateMin(it)))))))

\* Variant: Size is cut to Max (lines 58-60) before Max is raised to Min.
ValidateSizeMaxFirst(it) ==
    validateMaxMin(validateSizeMax(validateSizeMin(validateMax(
        validateSize(validateShrink(validateGrow(validateMin(it))))))))

Validate(it) ==
    validateSizeMax(validateMaxMin(validateSizeMin(validateMax(
        validateSize(validateShrink(validateGrow(validateMin(it))))))))

\* Variant: Basis is ignored, the natural size is always the flex base size.
determineFlexBaseSizeAuto(it) == [it EXCEPT !.flexBaseSize = it.Size]

determineFlexBaseSize(it) ==
    IF it.Basis >= 0 THEN [it EXCEPT !.flexBaseSize = it.Basis]
                     ELSE [it EXCEPT !.flexBaseSize = it.Size]

\* lines 74-77 and 78-80 of determineHypoMainSize
hypoAtLeastMin(it) ==
    IF it.flexBaseSize < it.Min THEN [it EXCEPT !.hypoMainSize = it.Min]
    ELSE [it EXCEPT !.hypoMainSize = it.flexBaseSize]

hypoAtMostMax(it) ==
    IF it.Max # 0 /\ it.hypoMainSize > it.Max THEN [it EXCEPT !.hypoMainSize = it.Max]
    ELSE it

\* Variant: the hypothetical main size is not clamped to Max.
determineHypoMainSizeNoMax(it) == hypoAtLeastMin(it)

determineHypoMainSize(it) == hypoAtMostMax(hypoAtLeastMin(it))

\* Variant: an inflexible item is frozen at its flex base size.
sizeIfInflexibleAtBase(it, grow) ==
    IF grow
    THEN IF it.Grow = 0 \/ it.flexBaseSize > it.hypoMainSize
         THEN [it EXCEPT !.targetMainSize = it.flexBaseSize, !.frozen = TRUE]
         ELSE it
    ELSE IF it.Shrink = 0 \/ it.flexBaseSize < it.hypoMainSize
         THEN [it EXCEPT !.targetMainSize = it.flexBaseSize, !.frozen = TRUE]
         ELSE it

\* Variant: only a zero factor freezes, the flex base size is not compared
\* with the hypothetical main size.
sizeIfInflexibleByFactor(it, grow) ==
    IF (grow /\ it.Grow = 0) \/ (~grow /\ it.Shrink = 0)
    THEN [it EXCEPT !.targetMainSize = it.hypoMainSize, !.frozen = TRUE]
    ELSE it

sizeIfInflexible(it, grow) ==
    IF grow
    THEN IF it.Grow = 0 \/ it.flexBaseSize > it.hypoMainSize
         THEN [it EXCEPT !.targetMainSize = it.hypoMainSize, !.frozen = TRUE]
         ELSE it
    ELSE IF it.Shrink = 0 \/ it.flexBaseSize < it.hypoMainSize
         THEN [it EXCEPT !.targetMainSize = it.hypoMainSize, !.frozen = TRUE]
         ELSE it

allFrozen(its) == \A i \in 1..Len(its) : its[i].frozen

\* Variant: the Grow factors of frozen items are summed too.
sumGrowFactors(its) == SumSeq([i \in 1..Len(its) |-> its[i].Grow])

sumUnfrozenGrowFactors(its) ==
    SumSeq([i \in 1..Len(its) |-> IF its[i].frozen THEN 0 ELSE its[i].Grow])

(* ------------------- the phases of ResolveFlexLengths ------------------ *)

\* lines 103-105
ClampContainer(c) == IF c < 0 THEN 0 ELSE c

\* Variant: Validate runs on a copy, the caller's public fields are left as passed.
PrepareOnCopy(its) ==
    [i \in 1..Len(its) |->
        [determineHypoMainSize(determineFlexBaseSize(Validate(its[i])))
            EXCEPT !.Min = its[i].Min, !.Max = its[i].Max, !.Grow = its[i].Grow,
                   !.Shrink = its[i].Shrink, !.Size = its[i].Size]]

\* lines 107-116: Validate, flex base size and hypothetical main size of each item
Prepare(its) ==
    [i \in 1..Len(its) |-> determineHypoMainSize(determineFlexBaseSize(Validate(its[i])))]

SumHypoMainSize(its) == SumSeq([i \in 1..Len(its) |-> its[i].hypoMainSize])

\* lines 120-124
HypoLens(its) == [i \in 1..Len(its) |-> its[i].hypoMainSize]

\* Variant: the pre-freeze pass (lines 132-134) is missing.
PreFreezeNothing(its, grow) == its

\* lines 132-134
PreFreeze(its, grow) == [i \in 1..Len(its) |-> sizeIfInflexible(its[i], grow)]

\* lines 137-144 and 160-167
FreeSpace(its, c) ==
    c - SumSeq([i \in 1..Len(its) |->
                  IF its[i].frozen THEN its[i].targetMainSize ELSE its[i].flexBaseSize])

\* Variant: every share is computed from the whole free space (line 180 missing).
RECURSIVE DistributeGrowFromTotal(_, _, _, _)
DistributeGrowFromTotal(its, i, rem, sumGF) ==
    IF i > Len(its) THEN [items |-> its, ok |-> TRUE]
    ELSE IF its[i].frozen THEN DistributeGrowFromTotal(its, i + 1, rem, sumGF)
    ELSE IF sumGF = 0 THEN [items |-> its, ok |-> FALSE]
    ELSE LET growSpace == QuoInt(rem * its[i].Grow, sumGF)
         IN  DistributeGrowFromTotal(
                 [its EXCEPT ![i].targetMainSize = its[i].flexBaseSize + growSpace],
                 i + 1, rem, sumGF - its[i].Grow)

\* lines 172-182: the items from index i on, against the remaining pool.
\* ok = FALSE: the division at line 178 has a zero divisor (runtime panic).
RECURSIVE DistributeGrow(_, _, _, _)
DistributeGrow(its, i, rem, sumGF) ==
    IF i > Len(its) THEN [items |-> its, ok |-> TRUE]
    ELSE IF its[i].frozen THEN DistributeGrow(its, i + 1, rem, sumGF)
    ELSE IF sumGF = 0 THEN [items |-> its, ok |-> FALSE]
    ELSE LET growSpace == QuoInt(rem * its[i].Grow, sumGF)
         IN  DistributeGrow(
                 [its EXCEPT ![i].targetMainSize = its[i].flexBaseSize + growSpace],
                 i + 1, rem - growSpace, sumGF - its[i].Grow)

\* Variant: the shrink factor is not scaled by the flex base size.
ScaledShrinksByFactor(its) ==
    [i \in 1..Len(its) |-> IF its[i].frozen THEN 0 ELSE its[i].Shrink]

\* lines 184-192
ScaledShrinks(its) ==
    [i \in 1..Len(its) |-> IF its[i].frozen THEN 0 ELSE its[i].Shrink * its[i].flexBaseSize]

\* Variant: the sum of scaled shrink factors is not reduced (line 204 missing).
RECURSIVE DistributeShrinkStaleSum(_, _, _, _, _)
DistributeShrinkStaleSum(its, i, rem, scaledShrinks, sumScaledShrinks) ==
    IF i > Len(its) THEN [items |-> its, ok |-> TRUE]
    ELSE IF its[i].frozen
         THEN DistributeShrinkStaleSum(its, i + 1, rem, scaledShrinks, sumScaledShrinks)
    ELSE IF sumScaledShrinks = 0 THEN [items |-> its, ok |-> FALSE]
    ELSE LET shrinkSpace == QuoInt(rem * scaledShrinks[i], sumScaledShrinks)
         IN  DistributeShrinkStaleSum(
                 [its EXCEPT ![i].targetMainSize = its[i].flexBaseSize + shrinkSpace],
                 i + 1, rem - shrinkSpace, scaledShrinks, sumScaledShrinks)

\* lines 194-205
RECURSIVE DistributeShrink(_, _, _, _, _)
DistributeShrink(its, i, rem, scaledShrinks, sumScaledShrinks) ==
    IF i > Len(its) THEN [items |-> its, ok |-> TRUE]
    ELSE IF its[i].frozen
         THEN DistributeShrink(its, i + 1, rem, scaledShrinks, sumScaledShrinks)
    ELSE IF sumScaledShrinks = 0 THEN [items |-> its, ok |-> FALSE]
    ELSE LET shrinkSpace == QuoInt(rem * scaledShrinks[i], sumScaledShrinks)
         IN  DistributeShrink(
                 [its EXCEPT ![i].targetMainSize = its[i].flexBaseSize + shrinkSpace],
                 i + 1, rem - shrinkSpace, scaledShrinks,
                 sumScaledShrinks - scaledShrinks[i])

\* lines 170-207
Distribute(its, rem, grow) ==
    IF rem = 0 THEN [items |-> its, ok |-> TRUE]
    ELSE IF grow THEN DistributeGrow(its, 1, rem, sumUnfrozenGrowFactors(its))
    ELSE DistributeShrink(its, 1, rem, ScaledShrinks(its), SumSeq(ScaledShrinks(its)))

\* Variant: the check against Min (lines 218-223) is missing.
ViolationNoMin(it) ==
    IF it.frozen THEN 0
    ELSE IF it.Max # 0 /\ it.targetMainSize > it.Max THEN it.Max - it.targetMainSize
    ELSE 0

\* Variant: the check against Max (lines 224-228) is missing.
ViolationNoMax(it) ==
    IF it.frozen THEN 0
    ELSE IF it.targetMainSize < it.Min THEN it.Min - it.targetMainSize
    ELSE 0

\* lines 212-229: violation = clamped - unclamped
Violation(it) ==
    IF it.frozen THEN 0
    ELSE IF it.targetMainSize < it.Min THEN it.Min - it.targetMainSize
    ELSE IF it.Max # 0 /\ it.targetMainSize > it.Max THEN it.Max - it.targetMainSize
    ELSE 0

Violations(its) == [i \in 1..Len(its) |-> Violation(its[i])]

\* Variant: the violations are recorded, the targets are left unclamped.
ClampNothing(its) == its

Clamp(its) ==
    [i \in 1..Len(its) |->
        [its[i] EXCEPT !.targetMainSize = its[i].targetMainSize + Violation(its[i])]]

\* Variant: the two signs of totalViolation freeze each other's violators.
FreezeWrongSign(its, viol) ==
    LET totalViolation == SumSeq(viol)
    IN  [i \in 1..Len(its) |->
            IF \/ totalViolation = 0
               \/ totalViolation > 0 /\ viol[i] < 0
               \/ totalViolation < 0 /\ viol[i] > 0
            THEN [its[i] EXCEPT !.frozen = TRUE]
            ELSE its[i]]

\* Variant: an item frozen earlier is frozen only while it has a violation of
\* the sign of totalViolation.
FreezeResetting(its, viol) ==
    LET totalViolation == SumSeq(viol)
    IN  [i \in 1..Len(its) |->
            [its[i] EXCEPT !.frozen = \/ totalViolation = 0
                                      \/ totalViolation > 0 /\ viol[i] > 0
                                      \/ totalViolation < 0 /\ viol[i] < 0]]

\* Variant: every pass freezes every item, whatever the total violation.
FreezeAll(its, viol) == [i \in 1..Len(its) |-> [its[i] EXCEPT !.frozen = TRUE]]

\* lines 231-247
Freeze(its, viol) ==
    LET totalViolation == SumSeq(viol)
    IN  [i \in 1..Len(its) |->
            IF \/ totalViolation = 0
               \/ totalViolation > 0 /\ viol[i] > 0
               \/ totalViolation < 0 /\ viol[i] < 0
            THEN [its[i] EXCEPT !.frozen = TRUE]
            ELSE its[i]]

\* Variant: the widths are returned in reverse order.
TargetLensReversed(its) ==
    [i \in 1..Len(its) |-> its[Len(its) + 1 - i].targetMainSize]

\* lines 250-254
TargetLens(its) == [i \in 1..Len(its) |-> its[i].targetMainSize]

\* lines 159-247: the body of one iteration that did not break
Iterate(its, c, grow) ==
    LET rem  == FreeSpace(its, c)
        dist == Distribute(its, rem, grow)
        viol == Violations(dist.items)
    IN  [items |-> Slice(Freeze(Clamp(dist.items), viol)), ok |-> dist.ok,
         rem |-> rem, violations |-> viol]

\* lines 146-254 as a function of the items entering the loop:
\* the returned slice, or <<-1>> for a panic.
Panicked == <<-1>>

RECURSIVE RunLoop(_, _, _, _)
RunLoop(its, c, grow, iters) ==
    IF iters + 1 > Len(its) + 1 THEN Panicked
    ELSE IF allFrozen(its) THEN TargetLens(its)
    ELSE LET step == Iterate(its, c, grow)
         IN  IF step.ok THEN RunLoop(step.items, c, grow, iters + 1) ELSE Panicked

\* lines 127-254: what the function returns when the fast path is not taken
ResolveByLoop(its, c) ==
    LET prep == Slice(Prepare(its))
        cs   == ClampContainer(c)
        grow == SumHypoMainSize(prep) < cs
    IN  RunLoop(Slice(PreFreeze(prep, grow)), cs, grow, 0)

\* lines 97-255: the value ResolveFlexLengths returns for the slice its
Resolve(its, c) ==
    LET prep == Slice(Prepare(its))
    IN  IF SumHypoMainSize(prep) = ClampContainer(c) THEN HypoLens(prep)
        ELSE ResolveByLoop(its, c)

\* The same public fields on freshly constructed items.
Fresh(its) ==
    [i \in 1..Len(its) |->
        NewItem(its[i].Basis, its[i].Grow, its[i].Shrink, its[i].Size, its[i].Min, its[i].Max)]

IsFresh(its) ==
    \A i \in 1..Len(its) :
        /\ its[i].flexBaseSize = 0 /\ its[i].hypoMainSize = 0
        /\ ~its[i].frozen /\ its[i].targetMainSize = 0

(* ------------- ResolveFlexLengths on fixed-width integers -------------- *)

\* Go's int wraps around silently on overflow (two's complement); a division
\* by zero is a run-time panic.
MaxInt == 2^(IntBits - 1) - 1

Wrap(x) == ((x + 2^(IntBits - 1)) % 2^IntBits) - 2^(IntBits - 1)

\* lines 107-116, line 115 on machine integers
SumHypoMainSizeW(its) == Wrap(SumHypoMainSize(its))

\* lines 160-167 on machine integers
FreeSpaceW(its, c) == Wrap(FreeSpace(its, c))

\* lines 266-274 on machine integers
sumUnfrozenGrowFactorsW(its) == Wrap(sumUnfrozenGrowFactors(its))

\* lines 172-182 on machine integers
RECURSIVE DistributeGrowW(_, _, _, _)
DistributeGrowW(its, i, rem, sumGF) ==
    IF i > Len(its) THEN [items |-> its, ok |-> TRUE]
    ELSE IF its[i].frozen THEN DistributeGrowW(its, i + 1, rem, sumGF)
    ELSE IF sumGF = 0 THEN [items |-> its, ok |-> FALSE]
    ELSE LET growSpace == Wrap(QuoInt(Wrap(rem * its[i].Grow), sumGF))
         IN  DistributeGrowW(
                 [its EXCEPT ![i].targetMainSize = Wrap(its[i].flexBaseSize + growSpace)],
                 i + 1, Wrap(rem - growSpace), Wrap(sumGF - its[i].Grow))

\* lines 184-192 on machine integers
ScaledShrinksW(its) ==
    [i \in 1..Len(its) |->
        IF its[i].frozen THEN 0 ELSE Wrap(its[i].Shrink * its[i].flexBaseSize)]

\* lines 194-205 on machine integers
RECURSIVE DistributeShrinkW(_, _, _, _, _)
DistributeShrinkW(its, i, rem, scaledShrinks, sumScaledShrinks) ==
    IF i > Len(its) THEN [items |-> its, ok |-> TRUE]
    ELSE IF its[i].frozen
         THEN DistributeShrinkW(its, i + 1, rem, scaledShrinks, sumScaledShrinks)
    ELSE IF sumScaledShrinks = 0 THEN [items |-> its, ok |-> FALSE]
    ELSE LET shrinkSpace == Wrap(QuoInt(Wrap(rem * scaledShrinks[i]), sumScaledShrinks))
         IN  DistributeShrinkW(
                 [its EXCEPT ![i].targetMainSize = Wrap(its[i].flexBaseSize + shrinkSpace)],
                 i + 1, Wrap(rem - shrinkSpace), scaledShrinks,
                 Wrap(sumScaledShrinks - scaledShrinks[i]))

\* lines 170-207 on machine integers
DistributeW(its, rem, grow) ==
    IF rem = 0 THEN [items |-> its, ok |-> TRUE]
    ELSE IF grow THEN DistributeGrowW(its, 1, rem, sumUnfrozenGrowFactorsW(its))
    ELSE DistributeShrinkW(its, 1, rem, ScaledShrinksW(its),
                           Wrap(SumSeq(ScaledShrinksW(its))))

\* lines 212-229 on machine integers
ViolationsW(its) == [i \in 1..Len(its) |-> Wrap(Violation(its[i]))]

ClampW(its) ==
    [i \in 1..Len(its) |->
        [its[i] EXCEPT !.targetMainSize =
            Wrap(its[i].targetMainSize + Wrap(Violation(its[i])))]]

\* lines 231-247 on machine integers: totalViolation is a wrapped sum
FreezeW(its, viol) ==
    [i \in 1..Len(its) |->
        IF \/ Wrap(SumSeq(viol)) = 0
           \/ Wrap(SumSeq(viol)) > 0 /\ viol[i] > 0
           \/ Wrap(SumSeq(viol)) < 0 /\ viol[i] < 0
        THEN [its[i] EXCEPT !.frozen = TRUE]
        ELSE its[i]]

\* lines 159-247 on machine integers
IterateW(its, c, grow) ==
    [items |-> FreezeW(ClampW(DistributeW(its, FreeSpaceW(its, c), grow).items),
                       ViolationsW(DistributeW(its, FreeSpaceW(its, c), grow).items)),
     ok |-> DistributeW(its, FreeSpaceW(its, c), grow).ok,
     rem |-> FreeSpaceW(its, c),
     violations |-> ViolationsW(DistributeW(its, FreeSpaceW(its, c), grow).items)]

(* ------------------------------ Writer --------------------------------- *)

\* Column implementations (the sealed interface Column).
Omit == [kind |-> "Omit"]
Rigid(mn, mx, al) == [kind |-> "Rigid", Min |-> mn, Max |-> mx, Align |-> al]
Shrinkable(wt, mn, mx, al) ==
    [kind |-> "Shrinkable", Weight |-> wt, Min |-> mn, Max |-> mx, Align |-> al]
Flexed(wt, mn, mx, al) ==
    [kind |-> "Flexed", Weight |-> wt, Min |-> mn, Max |-> mx, Align |-> al]

\* type flexItem: a flex.Item and an Alignment
flexItem(it, al) == [Item |-> it, Alignment |-> al]

\* "if Max != 0 && Min > Max { Min = Max }" of every flex() method
LoweredMin(c) == IF c.Max # 0 /\ c.Min > c.Max THEN c.Max ELSE c.Min

DefaultedWeight(c) == IF c.Weight < 1 THEN 1 ELSE c.Weight

\* Variant: a Rigid column gets a Shrink factor of 1.
RigidFlexShrinking(r) == flexItem(NewItem(-1, 0, 1, 0, LoweredMin(r), r.Max), r.Align)

\* Rigid.flex: Auto basis, Grow and Shrink 0
RigidFlex(r) == flexItem(NewItem(-1, 0, 0, 0, LoweredMin(r), r.Max), r.Align)

\* Shrinkable.flex
ShrinkableFlex(c) ==
    flexItem(NewItem(-1, 0, DefaultedWeight(c), 0, LoweredMin(c), c.Max), c.Align)

\* Flexed.flex
FlexedFlex(c) ==
    flexItem(NewItem(0, DefaultedWeight(c), 1, 0, LoweredMin(c), c.Max), c.Align)

\* col.flex() for the column types other than Omit
flex(col) ==
    CASE col.kind = "Rigid" -> RigidFlex(col)
      [] col.kind = "Shrinkable" -> ShrinkableFlex(col)
      [] col.kind = "Flexed" -> FlexedFlex(col)

\* A Decorator, as far as the widths of its separators go: the left, inner
\* and right column separators, and whether it draws row separators.
Decorator(l, g, r, b) == [Left |-> l, Gap |-> g, Right |-> r, Borders |-> b]

\* GapDecorator{Gap: "  "}
GapDecorator == Decorator(0, 2, 0, FALSE)

\* a TableDecorator with one-column borders and intersections
TableDecorator == Decorator(1, 1, 1, TRUE)

decoratorWidth(deco, cols) ==
    deco.Left + deco.Right + (IF cols > 1 THEN (cols - 1) * deco.Gap ELSE 0)

\* New(), its output set to something that is not a terminal.
NewWriter ==
    [width |-> 80, omittedCols |-> <<>>, omitDefault |-> FALSE, columns |-> <<>>,
     defaultCol |-> ShrinkableFlex(Shrinkable(0, 0, 0, "Left")),
     deco |-> GapDecorator, mu |-> 0, buffer |-> <<>>, colBuffer |-> <<>>]

\* Variant: Lock does not wait.
UnlockedOrNot(w) == TRUE

\* sync.Mutex: mu is the goroutine holding the lock, 0 when it is free.
\* Lock blocks until Unlocked.
Unlocked(w) == w.mu = 0

\* No call in progress in a goroutine. A goroutine in a call has the method
\* and its argument in op and arg, the Writer as Lock found it in before,
\* and in laid and widths the locals of Flush; rows counts the rows the
\* goroutine has written with calls that returned.
NoCall ==
    [pc |-> "idle", op |-> "", arg |-> <<>>, before |-> <<>>, laid |-> <<>>,
     widths |-> <<>>, rows |-> 0]

\* The configuration of a Writer: every field but its buffers.
Cfg(w) ==
    [width |-> w.width, omittedCols |-> w.omittedCols, omitDefault |-> w.omitDefault,
     columns |-> w.columns, defaultCol |-> w.defaultCol, deco |-> w.deco]

\* Nothing flushed, nothing written. calls counts the method calls, flushes
\* the Flush calls among them and emitted the rows laid out by the Flush calls
\* that returned nil; err, widths, rows and cfg are the error returned, the
\* widths computed, the cells laid out and the configuration used by the last
\* Flush; written lists the rows written since the last Flush that returned
\* nil, each with the cells the caller passed and the cells writeRow kept,
\* and origin is that list as the last Flush found it; cols and defcol are
\* the Column values behind writer.columns and writer.defaultCol, flushedCols
\* and flushedDef those of the last Flush; again counts the rows of the last
\* Flush that the Flush before it had laid out and failed to write.
NoOutput ==
    [calls |-> 0, flushes |-> 0, emitted |-> 0, again |-> 0, err |-> FALSE,
     widths |-> <<>>,
     rows |-> <<>>, origin |-> <<>>, written |-> <<>>, cfg |-> Cfg(NewWriter),
     cols |-> <<>>, defcol |-> Shrinkable(0, 0, 0, "Left"),
     flushedCols |-> <<>>, flushedDef |-> Shrinkable(0, 0, 0, "Left")]

\* The loop of max (functional.go): m is the maximum of the elements before i.
RECURSIVE maxLoop(_, _, _)
maxLoop(s, i, m) ==
    IF i > Len(s) THEN m ELSE maxLoop(s, i + 1, IF s[i] > m THEN s[i] ELSE m)

\* max of functional.go, on a sequence of integers
max(s) == IF Len(s) = 0 THEN 0 ELSE maxLoop(s, 2, s[1])

\* A string is a sequence of one-column ASCII characters; text.Len is its length.
textLen(str) == Len(str)

\* minContent: the longest chunk of characters of one type (space, visible).
RECURSIVE longestChunk(_, _, _, _)
longestChunk(str, i, wordLen, best) ==
    IF i > Len(str) THEN (IF wordLen > best THEN wordLen ELSE best)
    ELSE IF i > 1 /\ (str[i] = " ") = (str[i - 1] = " ")
         THEN longestChunk(str, i + 1, wordLen + 1, best)
         ELSE longestChunk(str, i + 1, 1, IF wordLen > best THEN wordLen ELSE best)

minContent(str) == longestChunk(str, 1, 0, 0)

\* SetColumns
SetColumnsOmitted(cols) == [i \in 1..Len(cols) |-> cols[i].kind = "Omit"]

RECURSIVE SetColumnsColumns(_)
SetColumnsColumns(cols) ==
    IF cols = <<>> THEN <<>>
    ELSE IF Head(cols).kind = "Omit" THEN SetColumnsColumns(Tail(cols))
    ELSE <<flex(Head(cols))>> \o SetColumnsColumns(Tail(cols))

\* isOmitted(i), i counted from 0 as in the source
isOmitted(w, i) ==
    IF i < Len(w.omittedCols) THEN w.omittedCols[i + 1] ELSE w.omitDefault

\* getColumnDef(i), i counted from 0
getColumnDef(w, i) == IF i < Len(w.columns) THEN w.columns[i + 1] ELSE w.defaultCol

\* lines 326-332 of writeRow: the cells whose position is not omitted
RECURSIVE filteredCells(_, _, _)
filteredCells(w, cells, i) ==
    IF i >= Len(cells) THEN <<>>
    ELSE IF isOmitted(w, i) THEN filteredCells(w, cells, i + 1)
    ELSE <<cells[i + 1]>> \o filteredCells(w, cells, i + 1)

\* writeRow, for cells that are strings
writeRow(w, cells) ==
    [w EXCEPT !.colBuffer = Append(w.colBuffer, filteredCells(w, cells, 0))]

\* strings.Split(str, sep) for a one-character separator
RECURSIVE Split(_, _)
Split(str, sep) ==
    IF \A i \in 1..Len(str) : str[i] # sep THEN <<str>>
    ELSE LET k == CHOOSE i \in 1..Len(str) :
                      str[i] = sep /\ \A j \in 1..(i - 1) : str[j] # sep
         IN  <<SubSeq(str, 1, k - 1)>> \o Split(SubSeq(str, k + 1, Len(str)), sep)

\* lines 402-406 of flushBuffer: the rows of the byte buffer
bufferRows(buf) ==
    IF Split(buf, "\n")[Len(Split(buf, "\n"))] = <<>>
    THEN SubSeq(Split(buf, "\n"), 1, Len(Split(buf, "\n")) - 1)
    ELSE Split(buf, "\n")

RECURSIVE writeRows(_, _)
writeRows(w, rows) ==
    IF rows = <<>> THEN w
    ELSE writeRows(writeRow(w, Split(Head(rows), "\t")), Tail(rows))

\* Variant: line 414 (w.buffer = nil) is missing.
flushBufferKeepingBytes(w) == writeRows(w, bufferRows(w.buffer))

\* flushBuffer
flushBuffer(w) == [writeRows(w, bufferRows(w.buffer)) EXCEPT !.buffer = <<>>]

\* the number of columns: the length of the longest buffered row
nColumns(w) == max([r \in 1..Len(w.colBuffer) |-> Len(w.colBuffer[r])])

\* colLengths[i], i counted from 0
colLength(w, i) ==
    max([r \in 1..Len(w.colBuffer) |->
            IF i >= Len(w.colBuffer[r]) THEN 0 ELSE textLen(w.colBuffer[r][i + 1])])

\* colMinContent(i), i counted from 0
colMinContent(w, i) ==
    max([r \in 1..Len(w.colBuffer) |->
            IF i >= Len(w.colBuffer[r]) THEN 0 ELSE minContent(w.colBuffer[r][i + 1])])

\* lines 380-388 of computeWidths
minSize(w, i) ==
    IF getColumnDef(w, i).Item.Min > 0
    THEN (IF getColumnDef(w, i).Item.Max > 0
             /\ getColumnDef(w, i).Item.Min > getColumnDef(w, i).Item.Max
          THEN getColumnDef(w, i).Item.Max ELSE getColumnDef(w, i).Item.Min)
    ELSE (IF getColumnDef(w, i).Item.Max > 0
             /\ colMinContent(w, i) > getColumnDef(w, i).Item.Max
          THEN getColumnDef(w, i).Item.Max ELSE colMinContent(w, i))

\* lines 376-394 of computeWidths
flexItems(w) ==
    [k \in 1..nColumns(w) |->
        [getColumnDef(w, k - 1).Item EXCEPT !.Min = minSize(w, k - 1),
                                            !.Size = colLength(w, k - 1)]]

computeWidths(w) ==
    Resolve(Slice(flexItems(w)), w.width - decoratorWidth(w.deco, nColumns(w)))

\* wrap panics when it is not given a width above 0 (wrap.go, lines 10-12)
wrapPanics(width) == width <= 0

\* lines 431-446 and 450 of Flush: what wrap and align are called with for
\* each cell of each row, rows padded with empty cells to len(widths).
laidOut(w, widths) ==
    [r \in 1..Len(w.colBuffer) |->
        [k \in 1..(IF Len(w.colBuffer[r]) < Len(widths) THEN Len(widths)
                   ELSE Len(w.colBuffer[r])) |->
            [text |-> IF k <= Len(w.colBuffer[r]) THEN w.colBuffer[r][k] ELSE <<>>,
             width |-> widths[k],
             align |-> getColumnDef(w, k - 1).Alignment]]]

\* Variant: line 480 (w.colBuffer = nil) is missing.
flushedKeepingRows(w) == w

\* line 480 of Flush
flushed(w) == [w EXCEPT !.colBuffer = <<>>]

(* ------------------------------ inputs --------------------------------- *)

\* Basis: auto, zero, or an explicit width.
BasisValues == {-1, 0, MaxBasis}

\* Size is read only when Basis < 0 (lines 66-70): the natural size of an auto
\* item is MaxSize, a literal with an explicit Basis leaves Size at zero.
SizeFor(b) == IF b < 0 THEN MaxSize ELSE 0

\* <<Grow, Shrink>>: inflexible, growing only (Shrink given as a negative
\* number), and the two factors set to different weights either way round.
WeightValues == {<<0, 0>>, <<1, -1>>, <<1, MaxWeight>>, <<MaxWeight, 1>>}

\* <<Min, Max>>: no limit (a Max <= 0 is no maximum), a minimum, or a maximum.
LimitValues == {<<0, -1>>, <<MaxMin, 0>>, <<0, MaxMax>>}

RawItems ==
    { NewItem(b, w[1], w[2], SizeFor(b), l[1], l[2]) :
        b \in BasisValues, w \in WeightValues, l \in LimitValues }

ItemLists == UNION { [1..n -> RawItems] : n \in 0..MaxItems }

Containers == -1..MaxContainer

\* The item slices of the table tests in flex_test.go, fields not named in a
\* literal at their zero value.
G(g) == NewItem(0, g, 0, 0, 0, 0)
GB(g, b) == NewItem(b, g, 0, 0, 0, 0)
B(b) == NewItem(b, 0, 0, 0, 0, 0)
S(sz) == NewItem(-1, 0, 0, sz, 0, 0)
SS(sz, s) == NewItem(-1, 0, s, sz, 0, 0)
BS(b, s) == NewItem(b, 0, s, 0, 0, 0)

TestItemLists ==
    { <<G(1)>>, <<G(1), G(2)>>, <<G(1), G(2), G(1)>>, <<G(1), G(2), G(3)>>,
      <<G(3), G(2), G(1)>>,
      <<BS(10, 1)>>, <<NewItem(0, 0, 1, 0, 10, 0)>>,
      <<GB(1, 10)>>, <<GB(1, 10), G(2)>>, <<G(1), GB(2, 10)>>,
      <<G(1), NewItem(-1, 2, 0, 10, 0, 0)>>, <<GB(1, 10), GB(2, 10)>>,
      <<G(1), GB(2, 20), G(1)>>,
      <<B(10)>>, <<S(10)>>, <<B(10), S(20)>>, <<B(100)>>, <<S(100)>>,
      <<B(100), S(200)>>,
      <<SS(80, 1)>>, <<SS(80, 1), SS(80, 1)>>, <<SS(160, 1), SS(80, 1)>>,
      <<SS(60, 2), SS(60, 1)>>,
      <<B(30), G(1)>>, <<B(40), BS(40, 1)>>, <<B(30), G(1), G(2)>>,
      <<B(40), BS(40, 1), BS(40, 1)>> }

TestContainers == {0, TestContainerSize}

\* Items for Item.Validate alone: every field from below zero up to its bound.
AnyItems ==
    { NewItem(b, g, sh, sz, mn, mx) :
        b \in {-1, 0}, g \in -1..1, sh \in -1..1,
        sz \in -1..MaxSize, mn \in -1..MaxMin, mx \in -1..MaxMax }

\* Items of the fuzz tests (any int in every field), the values that matter
\* at the edge of the integer range: a Grow of MaxInt, a Shrink of 2^(IntBits-2).
FixedWidthItems ==
    { NewItem(b, g, sh, 0, 0, 0) :
        b \in {0, 4}, g \in {0, 2, MaxInt}, sh \in {0, 1, 2^(IntBits - 2)} }

FixedWidthItemLists == UNION { [1..n -> FixedWidthItems] : n \in 1..3 }

\* The fuzz tests pass a uint16, far narrower than int.
FixedWidthContainers == {0, 1, 2^(IntBits \div 2) - 1}

\* Arguments of the Writer's methods: column lists for SetColumns (distinct
\* alignments tell the configurations apart), default columns, widths,
\* decorators, rows for WriteRow and byte chunks for Write.
ColumnLists ==
    { <<>>,
      <<Rigid(4, 3, "Right")>>,
      <<Omit, Rigid(2, 3, "Center")>>,
      <<Rigid(2, 3, "Center"), Omit, Rigid(0, 0, "Right")>>,
      <<Flexed(1, 0, 0, "Center"), Rigid(0, 3, "Right")>> }

DefaultColumns == { Omit, Shrinkable(0, 0, 0, "Left") }

WidthValues == {-1, 0, 6}

Decorators == { GapDecorator, TableDecorator }

RowValues ==
    { <<>>,
      <<<<"a">>, <<>>>>,
      <<<<"a", "a", " ", "a">>, <<"a">>, <<"a", "a">>>> }

ChunkValues ==
    { <<"a", "\t">>,
      <<"a", "a", " ", "a", "\t", "a", "\n">>,
      <<"\n">> }

(* ------------------------------ actions -------------------------------- *)

Locals0 ==
    /\ useGrow = FALSE
    /\ initialFreeSpace = 0
    /\ iterations = 0
    /\ remainingFreeSpace = 0
    /\ violations = <<>>
    /\ clamped = FALSE
    /\ lens = <<>>
    /\ writer = NewWriter
    /\ out = NoOutput
    /\ goroutines = [g \in 1..MaxGoroutines |-> NoCall]

Init ==
    /\ items \in ItemLists
    /\ input = items
    /\ fresh = TRUE
    /\ containerSize = 0
    /\ pc = "idle"
    /\ Locals0

\* lines 97-144 of a call ResolveFlexLengths(items, c): up to the fast-path
\* return, or up to the entry of the loop.
Enter(c) ==
    LET prep == Prepare(items)
        cs   == ClampContainer(c)
        grow == SumHypoMainSize(prep) < cs
        pre  == PreFreeze(prep, grow)
    IN  /\ input' = items
        /\ fresh' = IsFresh(items)
        /\ containerSize' = cs
        /\ iterations' = 0
        /\ remainingFreeSpace' = 0
        /\ violations' = <<>>
        /\ clamped' = FALSE
        /\ UNCHANGED <<writer, out, goroutines>>
        /\ IF SumHypoMainSize(prep) = cs
           THEN /\ items' = prep
                /\ lens' = HypoLens(prep)
                /\ pc' = "done"
                /\ useGrow' = FALSE
                /\ initialFreeSpace' = 0
           ELSE /\ items' = pre
                /\ lens' = <<>>
                /\ pc' = "loop"
                /\ useGrow' = grow
                /\ initialFreeSpace' = FreeSpace(pre, cs)

\* A call on freshly constructed items.
Call(c) ==
    /\ pc = "idle"
    /\ Enter(c)

\* One pass of the for loop at lines 147-248, the return at 250-254 included.
LoopIteration ==
    /\ pc = "loop"
    /\ iterations' = iterations + 1
    /\ UNCHANGED <<input, fresh, containerSize, useGrow, initialFreeSpace, writer, out, goroutines>>
    /\ IF iterations + 1 > Len(items) + 1
       THEN /\ pc' = "panic"
            /\ UNCHANGED <<items, remainingFreeSpace, violations, clamped, lens>>
       ELSE IF allFrozen(items)
       THEN /\ pc' = "done"
            /\ lens' = TargetLens(items)
            /\ UNCHANGED <<items, remainingFreeSpace, violations, clamped>>
       ELSE LET step == Iterate(items, containerSize, useGrow)
            IN  /\ remainingFreeSpace' = step.rem
                /\ lens' = <<>>
                /\ IF step.ok
                   THEN /\ items' = step.items
                        /\ violations' = step.violations
                        /\ clamped' = (clamped \/ \E i \in 1..Len(items) :
                                                     step.violations[i] # 0)
                        /\ pc' = "loop"
                   ELSE /\ pc' = "panic"
                        /\ UNCHANGED <<items, violations, clamped>>

\* The caller passes the slice of a finished call to ResolveFlexLengths again.
CallAgain(c) ==
    /\ pc = "done"
    /\ Enter(c)

Next ==
    \/ \E c \in Containers : Call(c)
    \/ LoopIteration

Spec == Init /\ [][Next]_vars

\* The table tests: their slices, resolved for the container sizes they use.
InitTests ==
    /\ items \in TestItemLists
    /\ input = items
    /\ fresh = TRUE
    /\ containerSize = 0
    /\ pc = "idle"
    /\ Locals0

NextTests ==
    \/ \E c \in TestContainers : Call(c)
    \/ LoopIteration

SpecTests == InitTests /\ [][NextTests]_vars

\* The table tests, a slice being passed to ResolveFlexLengths again after a
\* call on it has returned.
NextReuse ==
    \/ \E c \in TestContainers : Call(c)
    \/ LoopIteration
    \/ \E c \in TestContainers : CallAgain(c)

SpecReuse == InitTests /\ [][NextReuse]_vars

\* A caller invokes the exported method Validate on each item of their slice,
\* before any call of ResolveFlexLengths and as often as they like.
ValidateItems ==
    /\ pc \in {"idle", "validated"}
    /\ input' = items
    /\ items' = [i \in 1..Len(items) |-> Validate(items[i])]
    /\ pc' = "validated"
    /\ UNCHANGED <<fresh, containerSize, useGrow, initialFreeSpace, iterations,
                   remainingFreeSpace, violations, clamped, lens, writer, out, goroutines>>

InitValidate ==
    /\ items \in { <<it>> : it \in AnyItems }
    /\ input = items
    /\ fresh = TRUE
    /\ containerSize = 0
    /\ pc = "idle"
    /\ Locals0

NextValidate == ValidateItems

SpecValidate == InitValidate /\ [][NextValidate]_vars

\* ResolveFlexLengths on machine integers: lines 97-144 of a call.
CallW(c) ==
    /\ pc = "idle"
    /\ input' = items
    /\ fresh' = IsFresh(items)
    /\ containerSize' = ClampContainer(c)
    /\ iterations' = 0
    /\ remainingFreeSpace' = 0
    /\ violations' = <<>>
    /\ clamped' = FALSE
    /\ UNCHANGED <<writer, out, goroutines>>
    /\ IF SumHypoMainSizeW(Prepare(items)) = ClampContainer(c)
       THEN /\ items' = Prepare(items)
            /\ lens' = HypoLens(Prepare(items))
            /\ pc' = "done"
            /\ useGrow' = FALSE
            /\ initialFreeSpace' = 0
       ELSE /\ items' = PreFreeze(Prepare(items),
                                  SumHypoMainSizeW(Prepare(items)) < ClampContainer(c))
            /\ lens' = <<>>
            /\ pc' = "loop"
            /\ useGrow' = (SumHypoMainSizeW(Prepare(items)) < ClampContainer(c))
            /\ initialFreeSpace' = FreeSpaceW(items', ClampContainer(c))

\* One pass of the for loop at lines 147-248 on machine integers; pc = "panic"
\* is panic("no solution found") or the run-time panic of a division by zero.
LoopIterationW ==
    /\ pc = "loop"
    /\ iterations' = iterations + 1
    /\ UNCHANGED <<input, fresh, containerSize, useGrow, initialFreeSpace, writer, out, goroutines>>
    /\ IF iterations + 1 > Len(items) + 1
       THEN /\ pc' = "panic"
            /\ UNCHANGED <<items, remainingFreeSpace, violations, clamped, lens>>
       ELSE IF allFrozen(items)
       THEN /\ pc' = "done"
            /\ lens' = TargetLens(items)
            /\ UNCHANGED <<items, remainingFreeSpace, violations, clamped>>
       ELSE /\ remainingFreeSpace' = FreeSpaceW(items, containerSize)
            /\ lens' = <<>>
            /\ IF IterateW(items, containerSize, useGrow).ok
               THEN /\ items' = IterateW(items, containerSize, useGrow).items
                    /\ violations' = IterateW(items, containerSize, useGrow).violations
                    /\ clamped' = (clamped \/ \E i \in 1..Len(items) : violations'[i] # 0)
                    /\ pc' = "loop"
               ELSE /\ pc' = "panic"
                    /\ UNCHANGED <<items, violations, clamped>>

InitFixedWidth ==
    /\ items \in FixedWidthItemLists
    /\ input = items
    /\ fresh = TRUE
    /\ containerSize = 0
    /\ pc = "idle"
    /\ Locals0

NextFixedWidth ==
    \/ \E c \in FixedWidthContainers : CallW(c)
    \/ LoopIterationW

SpecFixedWidth == InitFixedWidth /\ [][NextFixedWidth]_vars

\* The variables of ResolveFlexLengths, which the Writer calls as a function.
resolverVars ==
    <<items, input, fresh, containerSize, pc, useGrow, initialFreeSpace,
      iterations, remainingFreeSpace, violations, clamped, lens>>

\* The rows a Flush will lay out, with no regard to Omit: the rows written
\* so far followed by the rows of the byte buffer.
PendingRows ==
    out.written
    \o [r \in 1..Len(bufferRows(writer.buffer)) |->
           [cells |-> Split(bufferRows(writer.buffer)[r], "\t"),
            kept |-> filteredCells(writer, Split(bufferRows(writer.buffer)[r], "\t"), 0),
            via |-> "Write"]]

SetColumns(cols) ==
    /\ out.calls < MaxCalls
    /\ writer' = [writer EXCEPT !.omittedCols = SetColumnsOmitted(cols),
                                !.columns = SetColumnsColumns(cols)]
    /\ out' = [out EXCEPT !.calls = @ + 1,
                           !.cols = SelectSeq(cols, LAMBDA c : c.kind # "Omit")]
    /\ UNCHANGED <<resolverVars, goroutines>>

SetDefaultColumn(col) ==
    /\ out.calls < MaxCalls
    /\ writer' = IF col.kind = "Omit"
                 THEN [writer EXCEPT !.omitDefault = TRUE]
                 ELSE [writer EXCEPT !.omitDefault = FALSE, !.defaultCol = flex(col)]
    /\ out' = [out EXCEPT !.calls = @ + 1,
                           !.defcol = IF col.kind = "Omit" THEN @ ELSE col]
    /\ UNCHANGED <<resolverVars, goroutines>>

SetWidth(width) ==
    /\ out.calls < MaxCalls
    /\ writer' = [writer EXCEPT !.width = width]
    /\ out' = [out EXCEPT !.calls = @ + 1]
    /\ UNCHANGED <<resolverVars, goroutines>>

SetDecorator(deco) ==
    /\ out.calls < MaxCalls
    /\ writer' = [writer EXCEPT !.deco = deco]
    /\ out' = [out EXCEPT !.calls = @ + 1]
    /\ UNCHANGED <<resolverVars, goroutines>>

\* Write appends to the byte buffer.
Write(b) ==
    /\ out.calls < MaxCalls
    /\ Len(writer.colBuffer) + Len(bufferRows(writer.buffer \o b)) <= MaxRows
    /\ writer' = [writer EXCEPT !.buffer = writer.buffer \o b]
    /\ out' = [out EXCEPT !.calls = @ + 1]
    /\ UNCHANGED <<resolverVars, goroutines>>

WriteRow(cells) ==
    /\ out.calls < MaxCalls
    /\ Len(writer.colBuffer) + Len(bufferRows(writer.buffer)) < MaxRows
    /\ writer' = writeRow(writer, cells)
    /\ out' = [out EXCEPT !.calls = @ + 1,
                           !.written = Append(@, [cells |-> cells,
                                                  kept |-> filteredCells(writer, cells, 0),
                                                  via |-> "WriteRow"])]
    /\ UNCHANGED <<resolverVars, goroutines>>

\* Flush; ok is whether the output's Write succeeds (line 475).
Flush(ok) ==
    /\ out.calls < MaxCalls
    /\ writer' = IF ok THEN flushed(flushBuffer(writer)) ELSE flushBuffer(writer)
    /\ out' = [calls |-> out.calls + 1,
               flushes |-> out.flushes + 1,
               emitted |-> IF ok THEN out.emitted + Len(flushBuffer(writer).colBuffer)
                           ELSE out.emitted,
               again |-> IF out.err THEN Len(out.rows) ELSE 0,
               err |-> ~ok,
               widths |-> computeWidths(flushBuffer(writer)),
               rows |-> laidOut(flushBuffer(writer), computeWidths(flushBuffer(writer))),
               origin |-> PendingRows,
               written |-> IF ok THEN <<>> ELSE PendingRows,
               cfg |-> Cfg(writer),
               cols |-> out.cols,
               defcol |-> out.defcol,
               flushedCols |-> out.cols,
               flushedDef |-> out.defcol]
    /\ UNCHANGED <<resolverVars, goroutines>>

InitWriter ==
    /\ items = <<>>
    /\ input = <<>>
    /\ fresh = TRUE
    /\ containerSize = 0
    /\ pc = "idle"
    /\ Locals0

NextWriter ==
    \/ \E cols \in ColumnLists : SetColumns(cols)
    \/ \E col \in DefaultColumns : SetDefaultColumn(col)
    \/ \E width \in WidthValues : SetWidth(width)
    \/ \E deco \in Decorators : SetDecorator(deco)
    \/ \E b \in ChunkValues : Write(b)
    \/ \E cells \in RowValues : WriteRow(cells)
    \/ \E ok \in BOOLEAN : Flush(ok)

SpecWriter == InitWriter /\ [][NextWriter]_vars

(* Several goroutines calling the methods of one Writer. Every method begins
   with w.mu.Lock() and defer w.mu.Unlock(); a call is the steps Lock, the
   body of the method and Unlock (the return). The body of Flush is three steps: the layout (lines 423-473),
   the Write to the output (line 475) and w.colBuffer = nil (line 480). *)

\* The calls a goroutine makes: one argument for each method, a row of two
\* cells, a chunk of one row, a column list that omits, a narrow width.
MethodCalls ==
    { [op |-> "WriteRow", arg |-> cells] : cells \in { r \in RowValues : Len(r) = 2 } }
    \cup { [op |-> "Write", arg |-> b] :
              b \in { c \in ChunkValues : Len(c) > 2 /\ c[Len(c)] = "\n" } }
    \cup { [op |-> "SetColumns", arg |-> cols] :
              cols \in { l \in ColumnLists : Len(l) = 2 /\ l[1] = Omit } }
    \cup { [op |-> "SetWidth", arg |-> <<width>>] : width \in { v \in WidthValues : v > 0 } }
    \cup { [op |-> "Flush", arg |-> <<>>] }

\* What the body of a method other than Flush makes of the Writer.
MethodBody(w, op, arg) ==
    CASE op = "WriteRow" -> writeRow(w, arg)
      [] op = "Write" -> [w EXCEPT !.buffer = w.buffer \o arg]
      [] op = "SetColumns" -> [w EXCEPT !.omittedCols = SetColumnsOmitted(arg),
                                        !.columns = SetColumnsColumns(arg)]
      [] op = "SetWidth" -> [w EXCEPT !.width = arg[1]]

\* Rows in the buffers of a Writer.
bufferedRows(w) == Len(w.colBuffer) + Len(bufferRows(w.buffer))

\* Goroutine g calls a method: w.mu.Lock() returns once the mutex is free.
Lock(g, call) ==
    /\ goroutines[g].pc = "idle"
    /\ out.calls < MaxCalls
    /\ call.op \in {"WriteRow", "Write"} => bufferedRows(writer) < MaxRows
    /\ Unlocked(writer)
    /\ writer' = [writer EXCEPT !.mu = g]
    /\ goroutines' = [goroutines EXCEPT ![g] = [@ EXCEPT !.pc = "body", !.op = call.op,
                                                          !.arg = call.arg,
                                                          !.before = writer]]
    /\ out' = [out EXCEPT !.calls = @ + 1]
    /\ UNCHANGED resolverVars

\* The body of WriteRow, Write, SetColumns or SetWidth.
Method(g) ==
    /\ goroutines[g].pc = "body"
    /\ goroutines[g].op # "Flush"
    /\ writer' = MethodBody(writer, goroutines[g].op, goroutines[g].arg)
    /\ goroutines' = [goroutines EXCEPT ![g] =
                         [@ EXCEPT !.pc = "unlock",
                                   !.rows = @ + bufferedRows(writer') - bufferedRows(writer)]]
    /\ UNCHANGED <<resolverVars, out>>

\* lines 423-473 of Flush: flushBuffer, computeWidths and the layout
FlushLayout(g) ==
    /\ goroutines[g].pc = "body"
    /\ goroutines[g].op = "Flush"
    /\ writer' = flushBuffer(writer)
    /\ goroutines' = [goroutines EXCEPT ![g] =
                         [@ EXCEPT !.pc = "write",
                                   !.widths = computeWidths(writer'),
                                   !.laid = laidOut(writer', computeWidths(writer'))]]
    /\ UNCHANGED <<resolverVars, out>>

\* lines 475-478 of Flush: the Write to the output succeeds or fails
FlushOutput(g, ok) ==
    /\ goroutines[g].pc = "write"
    /\ out' = [out EXCEPT !.flushes = @ + 1,
                           !.emitted = IF ok THEN @ + Len(goroutines[g].laid) ELSE @,
                           !.again = IF out.err THEN Len(out.rows) ELSE 0,
                           !.err = ~ok,
                           !.widths = goroutines[g].widths,
                           !.rows = goroutines[g].laid]
    /\ goroutines' = [goroutines EXCEPT ![g] =
                         [@ EXCEPT !.pc = IF ok THEN "clear" ELSE "unlock"]]
    /\ UNCHANGED <<resolverVars, writer>>

\* line 480 of Flush
FlushClear(g) ==
    /\ goroutines[g].pc = "clear"
    /\ writer' = flushed(writer)
    /\ goroutines' = [goroutines EXCEPT ![g] = [@ EXCEPT !.pc = "unlock"]]
    /\ UNCHANGED <<resolverVars, out>>

\* the deferred w.mu.Unlock(), and the return
Unlock(g) ==
    /\ goroutines[g].pc = "unlock"
    /\ writer' = [writer EXCEPT !.mu = 0]
    /\ goroutines' = [goroutines EXCEPT ![g] = [NoCall EXCEPT !.rows = goroutines[g].rows]]
    /\ UNCHANGED <<resolverVars, out>>

NextGoroutines ==
    \/ \E g \in 1..MaxGoroutines : \E call \in MethodCalls : Lock(g, call)
    \/ \E g \in 1..MaxGoroutines : Method(g)
    \/ \E g \in 1..MaxGoroutines : FlushLayout(g)
    \/ \E g \in 1..MaxGoroutines : \E ok \in BOOLEAN : FlushOutput(g, ok)
    \/ \E g \in 1..MaxGoroutines : FlushClear(g)
    \/ \E g \in 1..MaxGoroutines : Unlock(g)

SpecGoroutines == InitWriter /\ [][NextGoroutines]_vars

(* ------------------------------ claims --------------------------------- *)

Returned == pc = "done"
FastPath == pc = "done" /\ iterations = 0
LoopPath == pc = "done" /\ iterations > 0

\* Item i as the call normalised it in place: the record the caller (and the
\* fuzz tests) read Min and Max from after ResolveFlexLengths returns.
Norm(i) == items[i]

\* C1: every returned width of a call on freshly constructed items is at
\* least the item's post-normalization Min, and therefore at least 1.
C1_WidthAtLeastMin ==
    (Returned /\ fresh) =>
        /\ Len(lens) = Len(input)
        /\ \A i \in 1..Len(input) : lens[i] >= Norm(i).Min /\ lens[i] >= 1

\* A min clamp of the loop decided a returned width above 1.
C1_Witness ==
    /\ LoopPath /\ fresh /\ Len(violations) = Len(input)
    /\ \E i \in 1..Len(input) :
          violations[i] > 0 /\ lens[i] = Norm(i).Min /\ Norm(i).Min > 1

\* C2: on freshly constructed items, an item whose post-normalization Max is
\* non-zero gets a width of at most that Max.
C2_WidthAtMostMax ==
    (Returned /\ fresh) =>
        /\ Len(lens) = Len(input)
        /\ \A i \in 1..Len(input) : Norm(i).Max # 0 => lens[i] <= Norm(i).Max

\* A growing item was cut back to its Max by the loop.
C2_Witness ==
    /\ LoopPath /\ fresh /\ useGrow /\ Len(violations) = Len(input)
    /\ \E i \in 1..Len(input) :
          violations[i] < 0 /\ Norm(i).Max # 0 /\ lens[i] = Norm(i).Max

\* C3: the loop leaves through the all-frozen check within Len(items) + 1
\* iterations; neither panic("no solution found") nor a zero divisor is reached.
C3_Total ==
    /\ pc # "panic"
    /\ iterations <= Len(items) + 1

\* A call that needed every one of its N + 1 iterations, N >= 2.
C3_Witness ==
    /\ Returned /\ Len(items) >= 2 /\ iterations = Len(items) + 1

\* C4 (as claimed): a call on a reused slice returns what a call on freshly
\* constructed items with the same public fields and container size returns.
C4_NoStateAcrossCalls ==
    Returned => lens = Resolve(Fresh(input), containerSize)

\* C5: the returned slice has one width per input item, and width i is the
\* resolved size of item i: its hypothetical main size on the fast path, its
\* target main size after the loop.
C5_LengthAndOrder ==
    Returned =>
        /\ Len(lens) = Len(input)
        /\ Len(items) = Len(input)
        /\ \A i \in 1..Len(input) :
              /\ items[i].Basis = input[i].Basis
              /\ lens[i] = IF iterations = 0 THEN items[i].hypoMainSize
                           ELSE items[i].targetMainSize

\* The loop resolved two items to different widths.
C5_Witness ==
    /\ LoopPath /\ Len(input) = 2 /\ lens[1] # lens[2]
    /\ input[1].Basis # input[2].Basis

\* C6 (as claimed): when no clamp is triggered during distribution, the
\* widths sum to the container size.
C6_Conservation ==
    (Returned /\ fresh /\ ~clamped) => SumSeq(lens) = containerSize

\* C6 (amended): ... and the call took the fast path or distributed at least
\* once (the pre-freeze pass left an item unfrozen), the widths sum to the
\* container size.
C6_ConservationWhenDistributed ==
    (Returned /\ fresh /\ ~clamped /\ iterations # 1) => SumSeq(lens) = containerSize

\* A distribution over two unfrozen items without any clamp.
C6_Witness ==
    /\ LoopPath /\ fresh /\ ~clamped /\ iterations = 2 /\ Len(input) = 2
    /\ \A i \in 1..2 : lens[i] # items[i].hypoMainSize

\* C7 (as claimed): the widths of the fast path are the widths the pre-freeze
\* pass and the loop return for the same input.
C7_FastPathIsShortcut ==
    (FastPath /\ fresh) => lens = ResolveByLoop(input, containerSize)

\* C7 (amended): ... provided the pre-freeze pass freezes every item (each
\* has Shrink = 0 or a flex base size below its hypothetical main size).
C7_FastPathWhenAllInflexible ==
    (FastPath /\ fresh /\ allFrozen(PreFreeze(items, FALSE))) =>
        lens = ResolveByLoop(input, containerSize)

\* A fast-path call on two items the pre-freeze pass would freeze, one of
\* them because its flex base size is below its hypothetical main size.
C7_Witness ==
    /\ FastPath /\ fresh /\ Len(input) = 2
    /\ allFrozen(PreFreeze(items, FALSE))
    /\ \E i \in 1..2 : items[i].Shrink > 0 /\ items[i].flexBaseSize < items[i].hypoMainSize

\* C8 (as claimed): among items with identical Basis, Size, Min and Max the
\* larger Grow gets the larger-or-equal width when growing, the larger Shrink
\* the smaller-or-equal width when shrinking, whatever the positions.
SameBox(i, j) ==
    /\ Norm(i).Basis = Norm(j).Basis /\ Norm(i).Size = Norm(j).Size
    /\ Norm(i).Min = Norm(j).Min /\ Norm(i).Max = Norm(j).Max

C8_Monotone ==
    (LoopPath /\ fresh) =>
        \A i, j \in 1..Len(input) :
            SameBox(i, j) =>
                /\ (useGrow /\ Norm(i).Grow >= Norm(j).Grow) => lens[i] >= lens[j]
                /\ (~useGrow /\ Norm(i).Shrink >= Norm(j).Shrink) => lens[i] <= lens[j]

\* C8 (amended): the same, for the item that comes later in the input order:
\* each share is truncated and the remainder stays in the pool for the items
\* after it, so a later item with a factor at least as large never gets less
\* growth, nor less shrinkage, than an earlier one.
C8_MonotoneWhenLater ==
    (LoopPath /\ fresh) =>
        \A i, j \in 1..Len(input) :
            (SameBox(i, j) /\ i > j) =>
                /\ (useGrow /\ Norm(i).Grow >= Norm(j).Grow) => lens[i] >= lens[j]
                /\ (~useGrow /\ Norm(i).Shrink >= Norm(j).Shrink) => lens[i] <= lens[j]

\* Two items of one box, the later with the larger Grow, both grown by the loop.
C8_Witness ==
    /\ LoopPath /\ fresh /\ useGrow
    /\ \E i, j \in 1..Len(input) :
          /\ SameBox(i, j) /\ i > j
          /\ Norm(i).Grow > Norm(j).Grow /\ Norm(j).Grow > 0
          /\ lens[i] > lens[j] /\ lens[j] > Norm(j).Min

\* C9 (as claimed): container 60, [{Grow 1}, {Grow 2, Basis 10}] gives [26, 34].
C9Input == <<G(1), GB(2, 10)>>

C9_SecondBasis10 ==
    (Returned /\ input = C9Input /\ containerSize = TestContainerSize) =>
        lens = <<26, 34>>

\* C9 (amended): container 60, [{Grow 1}, {Grow 2, Basis 10}] gives [16, 44];
\* [26, 34] is the result for [{Grow 1, Basis 10}, {Grow 2}].
C9_SecondBasis10Gives16_44 ==
    /\ (Returned /\ input = C9Input /\ containerSize = TestContainerSize) =>
          lens = <<16, 44>>
    /\ (Returned /\ input = <<GB(1, 10), G(2)>> /\ containerSize = TestContainerSize) =>
          lens = <<26, 34>>

C9_Witness ==
    Returned /\ input = C9Input /\ containerSize = TestContainerSize

\* C10: an item with Grow = 0 and Shrink = 0 resolves to its flex base size
\* (Basis if Basis >= 0, else Size) clamped into [Min, Max], whatever the
\* container size and the other items.
ClampInto(x, mn, mx) ==
    IF x < mn THEN mn ELSE IF mx # 0 /\ x > mx THEN mx ELSE x

C10_InflexibleKeepsHypo ==
    (Returned /\ fresh) =>
        \A i \in 1..Len(input) :
            (Norm(i).Grow = 0 /\ Norm(i).Shrink = 0) =>
                lens[i] = ClampInto(IF Norm(i).Basis >= 0 THEN Norm(i).Basis
                                    ELSE Norm(i).Size,
                                    Norm(i).Min, Norm(i).Max)

\* An inflexible item wider than the container, next to an item that shrank.
C10_Witness ==
    /\ LoopPath /\ fresh /\ ~useGrow /\ Len(input) = 2
    /\ \E i, j \in 1..2 :
          /\ i # j
          /\ Norm(i).Grow = 0 /\ Norm(i).Shrink = 0 /\ lens[i] > containerSize
          /\ lens[j] < items[j].hypoMainSize

\* An item the pre-freeze pass of the current call left unfrozen (lines 83-95),
\* read from the fields the call left on the item.
Flexible(i) ==
    IF useGrow
    THEN items[i].Grow # 0 /\ items[i].flexBaseSize <= items[i].hypoMainSize
    ELSE items[i].Shrink # 0 /\ items[i].flexBaseSize >= items[i].hypoMainSize

FlexibleGrowSum ==
    SumSeq([i \in 1..Len(items) |-> IF Flexible(i) THEN items[i].Grow ELSE 0])

ScaledShrink(i) == IF Flexible(i) THEN items[i].Shrink * items[i].flexBaseSize ELSE 0

FlexibleScaledShrinkSum == SumSeq([i \in 1..Len(items) |-> ScaledShrink(i)])

\* The free space of the call: the container less the targets of the items
\* the pre-freeze pass froze (their hypothetical main sizes) and the flex base
\* sizes of the others. Negative: the deficit of a shrinking call.
PreFreezeFreeSpace ==
    containerSize
    - SumSeq([i \in 1..Len(items) |->
                IF Flexible(i) THEN items[i].flexBaseSize ELSE items[i].hypoMainSize])

WithinLimits(i, w) == w >= items[i].Min /\ (items[i].Max # 0 => w <= items[i].Max)

ProportionalWidth(i) ==
    items[i].flexBaseSize + (PreFreezeFreeSpace \div FlexibleGrowSum) * items[i].Grow

ScaledWidth(i) ==
    items[i].flexBaseSize
    - (-PreFreezeFreeSpace * ScaledShrink(i)) \div FlexibleScaledShrinkSum

\* C11: in a growing call where the sum G of the unfrozen Grow factors divides
\* the free space F and no proportional share takes an unfrozen item below
\* its Min or above its Max, every unfrozen item i gets exactly
\* flexBaseSize_i + F * Grow_i / G, whatever its position.
C11_ProportionalGrowth ==
    (LoopPath /\ fresh /\ useGrow /\ FlexibleGrowSum > 0
       /\ PreFreezeFreeSpace % FlexibleGrowSum = 0
       /\ \A i \in 1..Len(input) : Flexible(i) => WithinLimits(i, ProportionalWidth(i))) =>
        \A i \in 1..Len(input) : Flexible(i) => lens[i] = ProportionalWidth(i)

\* Two unfrozen items with different Grow factors shared the free space
\* exactly, the larger factor first.
C11_Witness ==
    /\ LoopPath /\ fresh /\ useGrow /\ Len(input) = 2
    /\ Flexible(1) /\ Flexible(2) /\ items[1].Grow > items[2].Grow
    /\ PreFreezeFreeSpace > 0 /\ PreFreezeFreeSpace % FlexibleGrowSum = 0
    /\ \A i \in 1..2 : WithinLimits(i, ProportionalWidth(i))
    /\ lens[1] - items[1].flexBaseSize > lens[2] - items[2].flexBaseSize

\* C12: in a shrinking call where the deficit D times each scaled shrink
\* factor Shrink_i * flexBaseSize_i is a multiple of their sum W and no share
\* takes an unfrozen item below its Min or above its Max, every unfrozen item
\* i gets exactly flexBaseSize_i - D * (Shrink_i * flexBaseSize_i) / W.
C12_ScaledShrinking ==
    (LoopPath /\ fresh /\ ~useGrow /\ FlexibleScaledShrinkSum > 0
       /\ \A i \in 1..Len(input) :
             /\ (-PreFreezeFreeSpace * ScaledShrink(i)) % FlexibleScaledShrinkSum = 0
             /\ Flexible(i) => WithinLimits(i, ScaledWidth(i))) =>
        \A i \in 1..Len(input) : Flexible(i) => lens[i] = ScaledWidth(i)

\* Two unfrozen items with the same scaled shrink factor but different Shrink
\* factors lost the same width.
C12_Witness ==
    /\ LoopPath /\ fresh /\ ~useGrow /\ Len(input) = 2
    /\ Flexible(1) /\ Flexible(2) /\ PreFreezeFreeSpace < 0
    /\ items[1].Shrink # items[2].Shrink /\ ScaledShrink(1) = ScaledShrink(2)
    /\ \A i \in 1..2 :
          /\ (-PreFreezeFreeSpace * ScaledShrink(i)) % FlexibleScaledShrinkSum = 0
          /\ WithinLimits(i, ScaledWidth(i))
    /\ items[1].flexBaseSize - lens[1] = items[2].flexBaseSize - lens[2]

\* C13: for a container size <= 0 and a non-empty list, every item with
\* Shrink > 0 gets exactly its post-normalization Min, every item with
\* Shrink = 0 its hypothetical main size; a negative size gives what 0 gives.
C13_EmptyContainer ==
    (Returned /\ fresh /\ containerSize = 0 /\ Len(input) > 0) =>
        /\ \A i \in 1..Len(input) :
              lens[i] = IF Norm(i).Shrink > 0 THEN Norm(i).Min
                        ELSE items[i].hypoMainSize
        /\ \A c \in Containers : c <= 0 => Resolve(Fresh(input), c) = lens

\* An empty container: a shrinkable item wider than its Min above 1 came down
\* to it, next to an unshrinkable item that kept its width.
C13_Witness ==
    /\ LoopPath /\ fresh /\ containerSize = 0 /\ Len(input) = 2
    /\ \E i, j \in 1..2 :
          /\ Norm(i).Shrink > 0 /\ items[i].flexBaseSize > Norm(i).Min
          /\ Norm(i).Min > 1 /\ lens[i] = Norm(i).Min
          /\ Norm(j).Shrink = 0 /\ lens[j] = items[j].hypoMainSize /\ lens[j] > 1

\* The divisor line 178 or line 199 uses for unfrozen item i: the weights of
\* the unfrozen items from i on.
Weight(its, j, grow) ==
    IF its[j].frozen THEN 0
    ELSE IF grow THEN its[j].Grow ELSE its[j].Shrink * its[j].flexBaseSize

Divisor(its, i, grow) ==
    SumSeq([k \in 1..(Len(its) + 1 - i) |-> Weight(its, i + k - 1, grow)])

\* C20: at every iteration of the loop each unfrozen item has a strictly
\* positive weight in the active direction, so the divisor used for it is
\* strictly positive and the distribution does not divide by zero.
C20_DivisorPositive ==
    (pc = "loop" /\ fresh) =>
        \A i \in 1..Len(items) :
            ~items[i].frozen =>
                Weight(items, i, useGrow) > 0 /\ Divisor(items, i, useGrow) > 0

\* A second iteration is about to distribute a non-zero free space over an
\* item the first one left unfrozen.
C20_Witness ==
    /\ pc = "loop" /\ fresh /\ iterations = 1 /\ ~allFrozen(items)
    /\ FreeSpace(items, containerSize) # 0
    /\ \E i \in 1..Len(items) : items[i].frozen /\ Flexible(i)

\* C14: after Item.Validate, whatever the fields were, Min >= 1, Grow >= 0,
\* Shrink >= 0, Max >= 0, Size >= Min, and a non-zero Max is at least Min and
\* at least Size.
C14_ValidateInvariants ==
    pc = "validated" =>
        \A i \in 1..Len(items) :
            /\ items[i].Min >= 1 /\ items[i].Grow >= 0 /\ items[i].Shrink >= 0
            /\ items[i].Max >= 0 /\ items[i].Size >= items[i].Min
            /\ items[i].Max # 0 =>
                  items[i].Max >= items[i].Min /\ items[i].Size <= items[i].Max

\* Validate raised a positive Max below Min to Min and cut Size down to it,
\* and reset negative factors.
C14_Witness ==
    /\ pc = "validated"
    /\ input[1].Max > 0 /\ input[1].Max < input[1].Min /\ input[1].Size > input[1].Min
    /\ input[1].Grow < 0 /\ input[1].Shrink < 0
    /\ items[1].Max = input[1].Min /\ items[1].Size = input[1].Min

\* C15: Item.Validate applied to an item that Validate has processed changes
\* none of its fields.
C15_ValidateIdempotent ==
    pc = "validated" => \A i \in 1..Len(items) : Validate(items[i]) = items[i]

\* Validate was applied to an item it had already brought to Size = Max = Min.
C15_Witness ==
    /\ pc = "validated" /\ input = items
    /\ items[1].Min > 1 /\ items[1].Max = items[1].Min /\ items[1].Size = items[1].Min

\* C16 (as claimed): on fixed-width integers a call on arbitrary int fields
\* and an unsigned container size never panics, and every returned width is
\* positive, at least Min and at most a non-zero Max.
C16_NoPanicFixedWidth ==
    /\ pc # "panic"
    /\ Returned =>
          \A i \in 1..Len(lens) :
              /\ lens[i] > 0 /\ lens[i] >= items[i].Min
              /\ items[i].Max # 0 => lens[i] <= items[i].Max

\* What the last Flush laid out: the texts of row r, the widest text of
\* column k, the configuration of column k (k counted from 1).
Texts(row) == [k \in 1..Len(row) |-> row[k].text]

Widest(k) == max([r \in 1..Len(out.rows) |-> Len(out.rows[r][k].text)])

ColumnDef(k) == getColumnDef(out.cfg, k - 1)

\* The Column value column k was configured with: the k-th non-Omit column
\* of SetColumns, or the default column.
Column(k) ==
    IF k <= Len(out.flushedCols) THEN out.flushedCols[k] ELSE out.flushedDef

C18_FlushEmptiesRowBuffers ==
    /\ Len(writer.colBuffer) = Len(out.written)
    /\ out.flushes > 0 =>
          /\ Len(out.rows) = Len(out.origin)
          /\ \A r \in 1..Len(out.rows) :
                SubSeq(Texts(out.rows[r]), 1, Len(out.origin[r].kept)) = out.origin[r].kept
          /\ out.widths =
                computeWidths([width |-> out.cfg.width, deco |-> out.cfg.deco,
                               columns |-> out.cfg.columns,
                               defaultCol |-> out.cfg.defaultCol,
                               colBuffer |-> [r \in 1..Len(out.origin) |->
                                                 out.origin[r].kept]])

\* A second Flush returned nil and laid out only the one narrower row written
\* after a first Flush that had laid out a wider one.
C18_Witness ==
    /\ out.flushes = 2 /\ ~out.err /\ out.emitted = 2 /\ Len(out.rows) = 1
    /\ Len(out.widths) = 2 /\ writer.colBuffer = <<>> /\ writer.buffer = <<>>

\* cells padded with empty cells to n cells (lines 437-440 of Flush)
Padded(cells, n) ==
    [k \in 1..(IF Len(cells) < n THEN n ELSE Len(cells)) |->
        IF k <= Len(cells) THEN cells[k] ELSE <<>>]

\* C19 (as claimed): a Flush lays out, of each row written with WriteRow or
\* Write, the cells whose position is not configured as Omit (by SetColumns,
\* or by the default column beyond the configured ones), the k-th of them
\* with the k-th non-Omit column configuration or the default column.
C19_OmittedNeverReachOutput ==
    out.flushes > 0 =>
        /\ Len(out.rows) = Len(out.origin)
        /\ \A r \in 1..Len(out.rows) :
              /\ Texts(out.rows[r]) =
                    Padded(filteredCells(out.cfg, out.origin[r].cells, 0), Len(out.widths))
              /\ \A k \in 1..Len(out.rows[r]) :
                    out.rows[r][k].align = ColumnDef(k).Alignment

(* ------------------- claims on the steps of the loop ------------------- *)

\* A step of LoopIteration that ran the body of the loop (lines 159-247).
IterationStep == pc = "loop" /\ pc' = "loop"

\* The target of item i after the distribution of an iteration step and
\* before its clamp (line 179 or 202): the clamp adds the violation it records.
Unclamped(i) ==
    IF items[i].frozen THEN items[i].targetMainSize
    ELSE items'[i].targetMainSize - violations'[i]

\* The share item i got in an iteration step (growSpace, shrinkSpace).
Share(i) == IF items[i].frozen THEN 0 ELSE Unclamped(i) - items[i].flexBaseSize

\* C21: in every iteration that distributes, the shares of the unfrozen items
\* sum to that iteration's remaining free space, and the targets before the
\* clamp, frozen and unfrozen, sum to the container size.
C21_ExactRemainder ==
    [][(IterationStep /\ remainingFreeSpace' # 0) =>
          /\ SumSeq([i \in 1..Len(items) |-> Share(i)]) = remainingFreeSpace'
          /\ SumSeq([i \in 1..Len(items) |-> Unclamped(i)]) = containerSize]_vars

\* Two shrinking items shared an odd negative free space that their equal
\* scaled shrink factors do not divide, and neither was clamped.
C21_Witness ==
    /\ pc = "loop" /\ iterations = 1 /\ fresh /\ ~useGrow
    /\ Len(items) = 2 /\ violations = <<0, 0>>
    /\ remainingFreeSpace < 0 /\ remainingFreeSpace % 2 = 1
    /\ items[1].Shrink * items[1].flexBaseSize = items[2].Shrink * items[2].flexBaseSize
    /\ items[1].targetMainSize < items[1].flexBaseSize
    /\ items[2].targetMainSize < items[2].flexBaseSize
    /\ (items[1].targetMainSize - items[1].flexBaseSize)
         + (items[2].targetMainSize - items[2].flexBaseSize) = remainingFreeSpace

\* C22: within a call a frozen item stays frozen and keeps its target through
\* every later pass of the loop, and the width returned for an item is the
\* target it had when it was frozen.
C22_FrozenIsFinal ==
    [][pc = "loop" =>
          /\ \A i \in 1..Len(items) :
                items[i].frozen =>
                    /\ items'[i].frozen
                    /\ items'[i].targetMainSize = items[i].targetMainSize
          /\ pc' = "done" => lens' = [i \in 1..Len(items) |-> items[i].targetMainSize]]_vars

\* A call of two items returned after two passes through the loop body: the
\* second pass distributed while the item frozen by the first was skipped.
C22_Witness ==
    /\ Returned /\ fresh /\ Len(items) = 2 /\ iterations = 3
    /\ remainingFreeSpace # 0
    /\ lens = <<items[1].targetMainSize, items[2].targetMainSize>>

\* The fields of an item that its caller sets.
Public(it) ==
    [Basis |-> it.Basis, Grow |-> it.Grow, Shrink |-> it.Shrink,
     Size |-> it.Size, Min |-> it.Min, Max |-> it.Max]

\* C23: after ResolveFlexLengths returns, each element of the caller's slice
\* has the Min, Max, Grow, Shrink and Size that Item.Validate produces for
\* the element as passed, and its Basis is unchanged.
C23_NormalizedInPlace ==
    Returned =>
        /\ Len(items) = Len(input)
        /\ \A i \in 1..Len(input) :
              /\ Public(items[i]) = Public(Validate(input[i]))
              /\ items[i].Basis = input[i].Basis

\* The loop returned for an item passed with Min, Max, Shrink and Size that
\* Validate changes.
C23_Witness ==
    /\ LoopPath
    /\ \E i \in 1..Len(input) :
          /\ input[i].Min < 1 /\ items[i].Min = 1
          /\ input[i].Max < 0 /\ items[i].Max = 0
          /\ input[i].Shrink < 0 /\ items[i].Shrink = 0
          /\ input[i].Size < 1 /\ items[i].Size = 1

\* C24: in a growing call (hypothetical sizes sum below the container) every
\* returned width is at least the item's hypothetical main size, in a
\* shrinking call (they sum above it) at most.
C24_SameDirection ==
    (Returned /\ fresh) =>
        /\ Len(lens) = Len(items)
        /\ SumHypoMainSize(items) < containerSize =>
              \A i \in 1..Len(items) : lens[i] >= items[i].hypoMainSize
        /\ SumHypoMainSize(items) > containerSize =>
              \A i \in 1..Len(items) : lens[i] <= items[i].hypoMainSize

\* A shrinking call cut an item whose flex base size is above its Max back
\* to that Max, its hypothetical main size, while another item got narrower.
C24_Witness ==
    /\ LoopPath /\ fresh /\ SumHypoMainSize(items) > containerSize
    /\ Len(violations) = Len(items)
    /\ \E i, j \in 1..Len(items) :
          /\ violations[i] < 0
          /\ items[i].flexBaseSize > items[i].hypoMainSize
          /\ lens[i] = items[i].hypoMainSize
          /\ lens[j] < items[j].hypoMainSize

\* C25: every pass through the loop body freezes at least one item that was
\* unfrozen when the pass began; when the total violation is non-zero, an
\* unfrozen item has a violation of its sign.
C25_Progress ==
    [][IterationStep =>
          /\ \E i \in 1..Len(items) : ~items[i].frozen /\ items'[i].frozen
          /\ SumSeq(violations') > 0 =>
                \E i \in 1..Len(items) : ~items[i].frozen /\ violations'[i] > 0
          /\ SumSeq(violations') < 0 =>
                \E i \in 1..Len(items) : ~items[i].frozen /\ violations'[i] < 0]_vars

\* A pass with a non-zero total violation froze its violator and left
\* another item unfrozen for the next pass.
C25_Witness ==
    /\ pc = "loop" /\ fresh /\ iterations >= 1
    /\ Len(violations) = Len(items) /\ SumSeq(violations) # 0
    /\ \E i, j \in 1..Len(items) :
          /\ items[i].frozen /\ violations[i] # 0
          /\ ~items[j].frozen

\* C26: in every pass through the loop body the recomputed remaining free
\* space is non-zero with the sign of the direction, so the distribution
\* assigns the target of every unfrozen item before the clamp reads it.
C26_FreeSpaceHasDirection ==
    [][IterationStep =>
          /\ useGrow => remainingFreeSpace' > 0
          /\ ~useGrow => remainingFreeSpace' < 0
          /\ remainingFreeSpace' = FreeSpace(items, containerSize)
          /\ \A i \in 1..Len(items) :
                ~items[i].frozen =>
                    IF useGrow THEN Unclamped(i) >= items[i].flexBaseSize
                    ELSE Unclamped(i) <= items[i].flexBaseSize]_vars

\* A growing call went through the loop body twice: the free space of the
\* second pass, recomputed with the item the first pass froze, is positive
\* and below the initial free space.
C26_Witness ==
    /\ Returned /\ fresh /\ useGrow /\ iterations = 3 /\ Len(items) = 2
    /\ remainingFreeSpace > 0 /\ remainingFreeSpace < initialFreeSpace

\* C27: a growing call (hypothetical sizes sum below the container) returns
\* widths that sum to at most the container size, a shrinking call (they sum
\* above it) widths that sum to at least the container size.
C27_NoOvershoot ==
    (Returned /\ fresh) =>
        /\ SumHypoMainSize(items) < containerSize => SumSeq(lens) <= containerSize
        /\ SumHypoMainSize(items) > containerSize => SumSeq(lens) >= containerSize

\* A shrinking call whose last pass raised an item to its Min: the widths
\* stay above the container size.
C27_Witness ==
    /\ LoopPath /\ fresh /\ SumHypoMainSize(items) > containerSize
    /\ Len(violations) = Len(items)
    /\ \E i \in 1..Len(items) : violations[i] > 0 /\ lens[i] = items[i].Min
    /\ \E j \in 1..Len(items) : lens[j] < items[j].hypoMainSize
    /\ SumSeq(lens) > containerSize

(* ------------------ claims on goroutines and errors -------------------- *)

\* Goroutine g is between the Lock and the Unlock of a call.
Locked(g) == goroutines[g].pc \in {"body", "write", "clear", "unlock"}

\* What the call of goroutine g makes of the Writer it found at its Lock when
\* nothing else touches the Writer.
Alone(g) ==
    IF goroutines[g].op = "Flush"
    THEN IF out.err THEN flushBuffer(goroutines[g].before)
         ELSE flushed(flushBuffer(goroutines[g].before))
    ELSE MethodBody(goroutines[g].before, goroutines[g].op, goroutines[g].arg)

\* C28: calls of several goroutines on one Writer are serialized: at most one
\* goroutine is between Lock and Unlock; a call returns with the Writer as the
\* call alone makes it from the Writer its Lock found, a Flush having laid
\* out the rows of that Writer (the resolver ran on them alone); and the rows
\* written by calls that returned are the rows emitted by the Flush calls
\* that returned nil plus the rows still buffered.
C28_Serialized ==
    /\ \A g, h \in 1..MaxGoroutines : (Locked(g) /\ Locked(h)) => g = h
    /\ \A g \in 1..MaxGoroutines :
          /\ Locked(g) => writer.mu = g
          /\ goroutines[g].pc = "unlock" =>
                /\ [writer EXCEPT !.mu = 0] = Alone(g)
                /\ goroutines[g].op = "Flush" =>
                      out.rows = laidOut(flushBuffer(goroutines[g].before),
                                         computeWidths(flushBuffer(goroutines[g].before)))
    /\ (\A g \in 1..MaxGoroutines : ~Locked(g)) =>
          SumSeq([g \in 1..MaxGoroutines |-> goroutines[g].rows])
              = out.emitted + bufferedRows(writer)

\* Two goroutines have each written a row, and a Flush of one of them has
\* laid out a row and is about to write it to the output, after a Flush
\* that emitted rows.
C28_Witness ==
    \E g, h \in 1..MaxGoroutines :
        /\ g # h /\ goroutines[g].rows > 0 /\ goroutines[h].rows > 0
        /\ goroutines[h].pc = "write" /\ Len(goroutines[h].laid) > 0
        /\ writer.mu = h /\ out.emitted > 0

\* A step of Flush.
FlushStep == out'.flushes = out.flushes + 1

\* Cell k of a laid-out row, empty beyond its padding.
CellAt(row, k) == IF k <= Len(row) THEN row[k].text ELSE <<>>

\* Row r of the last Flush is the row cells, padded with empty cells.
LaidOutFrom(r, cells) ==
    /\ Len(out'.rows[r]) >= Len(cells)
    /\ \A k \in 1..Len(out'.rows[r]) :
          out'.rows[r][k].text = IF k <= Len(cells) THEN cells[k] ELSE <<>>

\* C29: a Flush lays out the rows of the row buffer, those a failed Flush
\* kept included, followed by the rows of the byte buffer, which it empties;
\* when the output's Write fails it returns the error and the row buffer
\* holds every row it laid out, and when it succeeds the row buffer is empty;
\* the Flush after a failed one lays out every row of the failed one again.
C29_FailedFlushKeepsRows ==
    [][FlushStep =>
          /\ writer'.buffer = <<>>
          /\ Len(out'.rows) = Len(writer.colBuffer) + Len(bufferRows(writer.buffer))
          /\ \A r \in 1..Len(writer.colBuffer) : LaidOutFrom(r, writer.colBuffer[r])
          /\ out'.err =>
                /\ Len(writer'.colBuffer) = Len(out'.rows)
                /\ \A r \in 1..Len(out'.rows) : LaidOutFrom(r, writer'.colBuffer[r])
          /\ ~out'.err => writer'.colBuffer = <<>>
          /\ out.err =>
                /\ Len(out'.rows) >= Len(out.rows)
                /\ \A r \in 1..Len(out.rows) :
                      \A k \in 1..(Len(out.rows[r]) + Len(out'.rows[r])) :
                          CellAt(out'.rows[r], k) = CellAt(out.rows[r], k)]_vars

\* A Flush returned nil after laying out, with a row written after it, the
\* row of a Write that the Flush before it had laid out and failed to write.
C29_Witness ==
    /\ out.flushes >= 2 /\ ~out.err /\ out.again = 1 /\ Len(out.rows) = 2
    /\ out.emitted = 2 /\ out.origin[1].via = "Write"
    /\ writer.colBuffer = <<>> /\ writer.buffer = <<>>

\* C30: every width a Flush passes to wrap is at least 1, whatever the
\* columns, the writer width and the content, and there is a width for
\* every cell of every row.
C30_WrapNeverPanics ==
    out.flushes > 0 =>
        /\ \A k \in 1..Len(out.widths) : out.widths[k] >= 1
        /\ \A r \in 1..Len(out.rows) :
              /\ Len(out.origin[r].kept) <= Len(out.widths)
              /\ Len(out.rows[r]) = Len(out.widths)
              /\ \A k \in 1..Len(out.rows[r]) : ~wrapPanics(out.rows[r][k].width)

\* A Flush of a Writer whose width is below the width of its decoration laid
\* out a row with an empty cell: every column is 1 wide.
C30_Witness ==
    /\ out.flushes > 0 /\ Len(out.rows) > 0 /\ Len(out.widths) >= 2
    /\ out.cfg.width - decoratorWidth(out.cfg.deco, Len(out.widths)) < 0
    /\ \E r \in 1..Len(out.rows) : \E k \in 1..Len(out.rows[r]) :
          out.rows[r][k].text = <<>> /\ out.rows[r][k].width = 1

====
